---- MODULE Spec2Model ----
(***************************************************************************)
(* Model of mdai/client.py: the data-export lifecycle of                   *)
(* ProjectDataManager (create job, poll progress, acknowledge done/error,  *)
(* download, extract, signal readiness), the orchestration in              *)
(* Client.project, and the retry decorator around Client._gql.             *)
(*                                                                         *)
(* Python strings that are taken apart by the code (paths, file keys) are  *)
(* sequences of one-character strings.  JSON values are tagged records.    *)
(***************************************************************************)
EXTENDS Integers, Sequences, FiniteSets, TLC

VARIABLES
    orch,        \* position of the thread running Client.project
    orchExc,     \* exception that left Client.project ("none" if none)
    result,      \* arguments handed to Project(...) at line 63
    posted,      \* per manager: POSTs issued to create / done / error endpoints
    lastCreate,  \* per manager: the response to its create-job POST
    lastPoll,    \* per manager: the latest progress response it handled
    lastDone,    \* per manager: the response to its done acknowledgment
    timer,       \* per manager: number of started threading.Timer not yet fired
    dl,          \* per manager: position of the _download_file thread
    file_key,    \* per manager: file key handed to _download_file
    total_size,  \* per manager: content-length read by _download_file
    wrote,       \* per manager: bytes written by _download_file
    data_path,   \* per manager: self.data_path
    ready,       \* per manager: flag of the threading.Event self._ready
    raised,      \* per manager: exception raised out of one of its handlers
    raisedIn,    \* per manager: the thread that exception was raised in
    gate,        \* a threading.Event used by several threads: its flag
    opens,       \* number of set() calls made on that Event
    waiter,      \* per waiting thread: its position around wait()
    plan,        \* what the server answers to each invocation of _gql
    gql,         \* position of a caller of the retry-wrapped _gql
    attempt_number,  \* invocations of _gql made by the retry wrapper
    gqlValue,    \* the (data, errors) pair returned to the caller
    gqlExc       \* the exception raised to the caller

mainVars == <<orch, orchExc, result, posted, lastCreate, lastPoll, lastDone, timer,
              dl, file_key, total_size, wrote, data_path, ready, raised, raisedIn>>
gateVars == <<gate, opens, waiter>>
retryVars == <<plan, gql, attempt_number, gqlValue, gqlExc>>
vars == <<mainVars, gateVars, retryVars>>

(***************************************************************************)
(* Values                                                                  *)
(***************************************************************************)
Managers == {"images", "annotations"}

JNull == [t |-> "null"]
JNum(n) == [t |-> "num", v |-> n]
JStr(s) == [t |-> "str", v |-> s]

\* Python truthiness of a JSON value (None, 0 and "" are falsy).
Truthy(x) ==
    \/ x.t = "num" /\ x.v # 0
    \/ x.t = "str" /\ Len(x.v) > 0

\* self.path, the destination directory
DestPath == <<"d">>

\* self.data_path = None
NoPath == <<>>

\* file keys the server may hand out
FileKeys == { <<"i", ".", "z">>, <<"a">>, <<".", "h">> }

\* content-length values and byte counts of the stream
Sizes == 0 .. 2

(***************************************************************************)
(* os.path.join and os.path.splitext (posixpath)                           *)
(***************************************************************************)
\* str.rfind, 1-based; 0 when the character does not occur
rfind(p, c) ==
    LET hits == { i \in 1 .. Len(p) : p[i] = c }
    IN  IF hits = {} THEN 0 ELSE CHOOSE i \in hits : \A j \in hits : j <= i

join(a, b) ==
    IF Len(b) > 0 /\ b[1] = "/" THEN b
    ELSE IF Len(a) = 0 \/ a[Len(a)] = "/" THEN a \o b
    ELSE a \o <<"/">> \o b

\* os.path.splitext(p)[0]: cut at the last dot of the last component unless
\* that component has only dots before it
splitext0(p) ==
    LET sepIndex == rfind(p, "/")
        dotIndex == rfind(p, ".")
    IN  IF dotIndex > sepIndex
           /\ \E k \in (sepIndex + 1) .. (dotIndex - 1) : p[k] # "."
        THEN SubSeq(p, 1, dotIndex - 1)
        ELSE p

(***************************************************************************)
(* Server responses                                                        *)
(***************************************************************************)
\* session.post raising requests.exceptions.ConnectionError
ConnErr == [kind |-> "raise"]

\* r.status_code of the create-job response
CreateResponses == {ConnErr} \cup { [kind |-> "resp", status_code |-> c] : c \in {202, 200, 500} }

StatusValues == {"running", "done", "error", "queued"}
ProgressValues == {JNull, JNum(0), JNum(50), JNum(100), JNum(150)}
TimeValues == {JNull, JNum(30)}

\* bodies of the progress response: a JSON object with the three keys (the
\* code reads progress and timeRemaining only when status is "running"), or
\* one that lacks a key
ProgressBodies ==
    { [status |-> "running", progress |-> p, timeRemaining |-> t] :
        p \in ProgressValues, t \in TimeValues }
    \cup { [status |-> s, progress |-> JNum(100), timeRemaining |-> JNum(0)] :
             s \in StatusValues \ {"running"} }
    \cup { [progress |-> JNum(50), timeRemaining |-> JNum(30)],
           [status |-> "running", timeRemaining |-> JNum(30)],
           [status |-> "running", progress |-> JNum(50)] }

ProgressResponses ==
    {ConnErr, [kind |-> "nonjson"], [kind |-> "null"]}
    \cup { [kind |-> "json", body |-> b] : b \in ProgressBodies }

DoneBodies ==
    { [fileKey |-> JStr(k)] : k \in FileKeys }
    \cup { [fileKey |-> JNull], [fileKey |-> JStr(<<>>)], [other |-> JNull] }

DoneResponses ==
    {ConnErr, [kind |-> "nonjson"], [kind |-> "null"]}
    \cup { [kind |-> "json", body |-> b] : b \in DoneBodies }

ErrorResponses == {ConnErr} \cup { [kind |-> "resp", status_code |-> c] : c \in {200, 500} }

NoResponse == [kind |-> "none"]

(***************************************************************************)
(* ProjectDataManager handlers.  A handler is an operator from the         *)
(* responses the server gives to the calls it makes to its effect: the     *)
(* POSTs issued, the Timer or Thread started, the exception that leaves it.*)
(***************************************************************************)
NoEffect ==
    [create |-> 0, polled |-> FALSE, done |-> 0, error |-> 0, timer |-> 0,
     thread |-> FALSE, key |-> <<>>, exc |-> "none"]

\* an error handler that leaves a Timer for the next progress check behind
ErrorKeepsPolling(errResp) ==
    [NoEffect EXCEPT !.error = 1, !.timer = 1, !.exc = "Exception"]

\* POST .../error, then raise Exception("Error exporting ...")
on_data_export_job_error(errResp) ==
    [NoEffect EXCEPT !.error = 1,
                     !.exc = IF errResp = ConnErr THEN "requests.ConnectionError" ELSE "Exception"]

\* the except clause of _on_data_export_job_done: the call names the
\* undefined project_id, so evaluating its arguments raises NameError
on_data_export_job_done_except ==
    [NoEffect EXCEPT !.done = 1, !.exc = "NameError"]

\* a done handler that starts the download and a Timer for a further check
DoneKeepsPolling(doneResp) ==
    IF doneResp.kind = "json" /\ "fileKey" \in DOMAIN doneResp.body
       /\ Truthy(doneResp.body.fileKey)
    THEN [NoEffect EXCEPT !.done = 1, !.timer = 1, !.thread = TRUE,
                          !.key = doneResp.body.fileKey.v]
    ELSE [NoEffect EXCEPT !.done = 1]

\* POST .../done, then start the download thread when fileKey is truthy
on_data_export_job_done(doneResp) ==
    IF doneResp = ConnErr THEN [NoEffect EXCEPT !.done = 1, !.exc = "requests.ConnectionError"]
    ELSE IF doneResp.kind = "nonjson" THEN [NoEffect EXCEPT !.done = 1, !.exc = "ValueError"]
    ELSE IF doneResp.kind = "null" THEN on_data_export_job_done_except
    ELSE IF "fileKey" \notin DOMAIN doneResp.body THEN on_data_export_job_done_except
    ELSE IF Truthy(doneResp.body.fileKey)
         THEN [NoEffect EXCEPT !.done = 1, !.thread = TRUE, !.key = doneResp.body.fileKey.v]
         ELSE [NoEffect EXCEPT !.done = 1]

\* int(progress) if progress else 0
ProgressOf(body) == IF Truthy(body.progress) THEN body.progress.v ELSE 0

\* "if progress < 100": start a Timer for the next progress check
Reschedule(progress) == progress < 100

\* the branch on body["status"], lines 185-214
OnStatus(body, doneResp, errResp) ==
    IF body.status = "running"
    THEN IF Reschedule(ProgressOf(body)) THEN [NoEffect EXCEPT !.timer = 1] ELSE NoEffect
    ELSE IF body.status = "done" THEN on_data_export_job_done(doneResp)
    ELSE IF body.status = "error" THEN on_data_export_job_error(errResp)
    ELSE NoEffect

\* the exceptions the try block of lines 176-183 catches
CaughtByProgressTry(progResp) ==
    \/ progResp.kind = "null"
    \/ /\ progResp.kind = "json"
       /\ {"status", "progress", "timeRemaining"} \ DOMAIN progResp.body # {}

\* POST .../progress and act on the response
check_data_export_job_progress(progResp, doneResp, errResp) ==
    LET eff ==
          IF progResp = ConnErr THEN [NoEffect EXCEPT !.exc = "requests.ConnectionError"]
          ELSE IF progResp.kind = "nonjson" THEN [NoEffect EXCEPT !.exc = "ValueError"]
          ELSE IF CaughtByProgressTry(progResp) THEN on_data_export_job_error(errResp)
          ELSE OnStatus(progResp.body, doneResp, errResp)
    IN  [eff EXCEPT !.polled = TRUE]

\* a create call that takes every 2xx status for the acceptance
AcceptsAny2xx(createResp, progResp, doneResp, errResp) ==
    LET eff ==
          IF createResp = ConnErr THEN [NoEffect EXCEPT !.exc = "requests.ConnectionError"]
          ELSE IF createResp.status_code \in 200 .. 299
               THEN check_data_export_job_progress(progResp, doneResp, errResp)
               ELSE on_data_export_job_error(errResp)
    IN  [eff EXCEPT !.create = 1]

\* POST .../data-export/<type>; 202 starts the first progress check
create_data_export_job(createResp, progResp, doneResp, errResp) ==
    LET eff ==
          IF createResp = ConnErr THEN [NoEffect EXCEPT !.exc = "requests.ConnectionError"]
          ELSE IF createResp.status_code = 202
               THEN check_data_export_job_progress(progResp, doneResp, errResp)
               ELSE on_data_export_job_error(errResp)
    IN  [eff EXCEPT !.create = 1]

\* a download that skips the verification
NeverIncomplete(total, written) == FALSE

\* a verification that takes an unknown total (0) for a declared one
AnyDifference(total, written) == written # total

\* total_size != 0 and wrote != total_size
IncompleteDownload(total, written) == total # 0 /\ written # total

\* a download that leaves data_path unassigned
LeavesNoPath(type, filepath) == NoPath

\* a data_path that keeps the archive's extension
KeepsExtension(type, filepath) == filepath

\* the data_path _download_file reports for a manager type
DataPathFor(type, filepath) ==
    IF type = "images" THEN splitext0(filepath) ELSE filepath

\* a signal that a second set() takes back
EventToggle(flag) == ~flag

\* threading.Event: set() and the condition wait() returns on
EventSet(flag) == TRUE
EventIsSet(flag) == flag

\* a wait that does not wait
ReturnsAtOnce(m) == TRUE

\* wait_until_ready returns
wait_until_ready(m) == EventIsSet(ready[m])

(***************************************************************************)
(* State machine                                                           *)
(***************************************************************************)
MainInit ==
    /\ orch = "create_images"
    /\ orchExc = "none"
    /\ result = [annotations_fp |-> NoPath, images_dir |-> NoPath]
    /\ posted = [m \in Managers |-> [create |-> 0, done |-> 0, error |-> 0]]
    /\ lastCreate = [m \in Managers |-> NoResponse]
    /\ lastPoll = [m \in Managers |-> NoResponse]
    /\ lastDone = [m \in Managers |-> NoResponse]
    /\ timer = [m \in Managers |-> 0]
    /\ dl = [m \in Managers |-> "none"]
    /\ file_key = [m \in Managers |-> <<>>]
    /\ total_size = [m \in Managers |-> 0]
    /\ wrote = [m \in Managers |-> 0]
    /\ data_path = [m \in Managers |-> NoPath]
    /\ ready = [m \in Managers |-> FALSE]
    /\ raised = [m \in Managers |-> "none"]
    /\ raisedIn = [m \in Managers |-> "none"]

(***************************************************************************)
(* Client._gql under @retry(retry_on_exception=retry_on_http_error,        *)
(* stop_max_attempt_number=10)                                             *)
(***************************************************************************)
\* exception classes with the classes they are instances of
Ancestors(c) ==
    CASE c = "requests.ConnectionError" ->
           {"requests.ConnectionError", "requests.RequestException"}
      [] c = "requests.ConnectTimeout" ->
           {"requests.ConnectTimeout", "requests.ConnectionError", "requests.Timeout",
            "requests.RequestException"}
      [] c = "requests.ReadTimeout" ->
           {"requests.ReadTimeout", "requests.Timeout", "requests.RequestException"}
      [] c = "requests.HTTPError" -> {"requests.HTTPError", "requests.RequestException"}
      [] c = "urllib3.ProtocolError" -> {"urllib3.ProtocolError", "urllib3.HTTPError"}
      [] OTHER -> {c}

isinstance(c, e) == e \in Ancestors(c)

valid_exceptions == {"requests.HTTPError", "requests.ConnectionError", "urllib3.HTTPError"}

\* predicates that retry on every exception, and on none
retry_always(exception) == TRUE
retry_never(exception) == FALSE

retry_on_http_error(exception) ==
    \E e \in valid_exceptions : isinstance(exception, e)

stop_max_attempt_number == 10

\* what session.post does on one invocation: raise, or give a response
GqlRaises == { [kind |-> "raise", exc |-> c] :
                 c \in {"requests.ConnectionError", "requests.ConnectTimeout",
                        "requests.ReadTimeout", "urllib3.ProtocolError"} }

GqlBodies == { [json |-> "invalid"], [json |-> "null"],
               [json |-> "object", obj |-> [data |-> JNum(1)]],
               [json |-> "object", obj |-> [data |-> JNum(1), errors |-> JNum(2)]] }

GqlResponses ==
    GqlRaises \cup { [kind |-> "resp", status_code |-> c, body |-> b] :
                       c \in {200, 204, 500}, b \in GqlBodies }

\* r.raise_for_status() raises HTTPError for 4xx and 5xx
RaisesForStatus(status_code) == status_code \in 400 .. 599

\* one invocation of _gql, lines 94-108
gql_call(resp) ==
    IF resp.kind = "raise" THEN [exc |-> resp.exc, value |-> <<>>]
    ELSE IF resp.status_code # 200 /\ RaisesForStatus(resp.status_code)
         THEN [exc |-> "requests.HTTPError", value |-> <<>>]
    ELSE IF resp.body.json = "invalid" THEN [exc |-> "ValueError", value |-> <<>>]
    ELSE IF resp.body.json = "null" THEN [exc |-> "TypeError", value |-> <<>>]
    ELSE [exc |-> "none",
          value |-> << IF "data" \in DOMAIN resp.body.obj THEN resp.body.obj.data ELSE JNull,
                       IF "errors" \in DOMAIN resp.body.obj THEN resp.body.obj.errors ELSE JNull >>]

\* the wrapper retries an attempt that raised an exception the predicate accepts
ShouldReject(out) == out.exc # "none" /\ retry_on_http_error(out.exc)

\* a wrapper that gives up one attempt early
StopOneEarly(previous_attempt_number) == previous_attempt_number >= stop_max_attempt_number - 1

\* stop_after_attempt
Stop(previous_attempt_number) == previous_attempt_number >= stop_max_attempt_number

\* largest number of leading failures a plan prescribes
MaxFailures == 11

\* the server answers the first `fails` invocations with failWith, the later
\* ones with then
Plans == [fails : 0 .. MaxFailures, failWith : GqlResponses, then : GqlResponses]

ResponseAt(pl, k) == IF k <= pl.fails THEN pl.failWith ELSE pl.then

NoPlan == [fails |-> 0, failWith |-> [kind |-> "raise", exc |-> "requests.ConnectionError"],
           then |-> [kind |-> "raise", exc |-> "requests.ConnectionError"]]

\* several threads around one threading.Event
NumWaiters == 3
MaxOpens == 2
Waiters == 1 .. NumWaiters

GateInit ==
    /\ gate = FALSE
    /\ opens = 0
    /\ waiter = [w \in Waiters |-> [pc |-> "idle", sawOpens |-> 0]]

\* Client.project does not call _gql
RetryIdle ==
    /\ plan = NoPlan
    /\ gql = "idle"
    /\ attempt_number = 0
    /\ gqlValue = <<>>
    /\ gqlExc = "none"

Init == MainInit /\ GateInit /\ RetryIdle

\* what a handler run in `thread` leaves behind in manager m
Apply(m, eff, progResp, doneResp, thread, timersLeft) ==
    /\ posted' = [posted EXCEPT ![m] = [create |-> @.create + eff.create,
                                        done |-> @.done + eff.done,
                                        error |-> @.error + eff.error]]
    /\ lastPoll' = IF eff.polled THEN [lastPoll EXCEPT ![m] = progResp] ELSE lastPoll
    /\ lastDone' = IF eff.done > 0 THEN [lastDone EXCEPT ![m] = doneResp] ELSE lastDone
    /\ timer' = [timer EXCEPT ![m] = timersLeft + eff.timer]
    /\ dl' = IF eff.thread THEN [dl EXCEPT ![m] = "started"] ELSE dl
    /\ file_key' = IF eff.thread THEN [file_key EXCEPT ![m] = eff.key] ELSE file_key
    /\ raised' = IF eff.exc # "none" THEN [raised EXCEPT ![m] = eff.exc] ELSE raised
    /\ raisedIn' = IF eff.exc # "none" THEN [raisedIn EXCEPT ![m] = thread] ELSE raisedIn

\* Client.project lines 57-58: the call runs in the caller's thread, so an
\* exception leaving it leaves Client.project
CreateJob(m, next) ==
    /\ orch = "create_" \o m
    /\ \E createResp \in CreateResponses, progResp \in ProgressResponses,
          doneResp \in DoneResponses, errResp \in ErrorResponses :
         LET eff == create_data_export_job(createResp, progResp, doneResp, errResp)
         IN  /\ Apply(m, eff, progResp, doneResp, "main", timer[m])
             /\ lastCreate' = [lastCreate EXCEPT ![m] = createResp]
             /\ orch' = IF eff.exc # "none" THEN "raised" ELSE next
             /\ orchExc' = eff.exc
    /\ UNCHANGED <<gateVars, retryVars,
                   result, total_size, wrote, data_path, ready>>

\* a Timer started at line 208 fires and runs the progress check in its own
\* thread; an exception there ends that thread only
TimerPoll(m) ==
    /\ timer[m] > 0
    /\ \E progResp \in ProgressResponses, doneResp \in DoneResponses,
          errResp \in ErrorResponses :
         LET eff == check_data_export_job_progress(progResp, doneResp, errResp)
         IN  Apply(m, eff, progResp, doneResp, "timer", timer[m] - 1)
    /\ UNCHANGED <<gateVars, retryVars, lastCreate,
                   orch, orchExc, result, total_size, wrote, data_path, ready>>

\* _download_file lines 238-262: fetch the stream, write it, verify the size
DownloadStream(m) ==
    /\ dl[m] = "started"
    /\ \/ /\ dl' = [dl EXCEPT ![m] = "failed"]
          /\ raised' = [raised EXCEPT ![m] = "requests.ConnectionError"]
          /\ raisedIn' = [raisedIn EXCEPT ![m] = "download"]
          /\ UNCHANGED <<total_size, wrote>>
       \/ \E total \in Sizes, written \in Sizes :
            /\ total_size' = [total_size EXCEPT ![m] = total]
            /\ wrote' = [wrote EXCEPT ![m] = written]
            /\ IF IncompleteDownload(total, written)
               THEN /\ dl' = [dl EXCEPT ![m] = "failed"]
                    /\ raised' = [raised EXCEPT ![m] = "IOError"]
                    /\ raisedIn' = [raisedIn EXCEPT ![m] = "download"]
               ELSE /\ dl' = [dl EXCEPT ![m] = "verified"]
                    /\ UNCHANGED <<raised, raisedIn>>
    /\ UNCHANGED <<gateVars, retryVars,
                   orch, orchExc, result, posted, lastCreate, lastPoll, lastDone,
                   timer, file_key,
                   data_path, ready>>

\* _download_file lines 264-272: extract the archive (images) and set data_path
DownloadFinish(m) ==
    /\ dl[m] = "verified"
    /\ \/ /\ m = "images"
          /\ dl' = [dl EXCEPT ![m] = "failed"]
          /\ raised' = [raised EXCEPT ![m] = "BadZipFile"]
          /\ raisedIn' = [raisedIn EXCEPT ![m] = "download"]
          /\ UNCHANGED data_path
       \/ /\ dl' = [dl EXCEPT ![m] = "extracted"]
          /\ data_path' = [data_path EXCEPT ![m] = DataPathFor(m, join(DestPath, file_key[m]))]
          /\ UNCHANGED <<raised, raisedIn>>
    /\ UNCHANGED <<gateVars, retryVars,
                   orch, orchExc, result, posted, lastCreate, lastPoll, lastDone,
                   timer, file_key,
                   total_size, wrote, ready>>

\* _download_file line 275: self._ready.set()
DownloadReady(m) ==
    /\ dl[m] = "extracted"
    /\ dl' = [dl EXCEPT ![m] = "done"]
    /\ ready' = [ready EXCEPT ![m] = EventSet(ready[m])]
    /\ UNCHANGED <<gateVars, retryVars,
                   orch, orchExc, result, posted, lastCreate, lastPoll, lastDone,
                   timer, file_key,
                   total_size, wrote, data_path, raised, raisedIn>>

\* Client.project line 60
WaitImages ==
    /\ orch = "wait_images"
    /\ wait_until_ready("images")
    /\ orch' = "wait_annotations"
    /\ UNCHANGED <<gateVars, retryVars,
                   orchExc, result, posted, lastCreate, lastPoll, lastDone,
                   timer, dl, file_key,
                   total_size, wrote, data_path, ready, raised, raisedIn>>

\* Client.project lines 61-67
WaitAnnotations ==
    /\ orch = "wait_annotations"
    /\ wait_until_ready("annotations")
    /\ result' = [annotations_fp |-> data_path["annotations"],
                  images_dir |-> data_path["images"]]
    /\ orch' = "returned"
    /\ UNCHANGED <<gateVars, retryVars,
                   orchExc, posted, lastCreate, lastPoll, lastDone,
                   timer, dl, file_key,
                   total_size, wrote, data_path, ready, raised, raisedIn>>

CreateImages == CreateJob("images", "create_annotations")
CreateAnnotations == CreateJob("annotations", "wait_images")

Next ==
    \/ CreateImages
    \/ CreateAnnotations
    \/ WaitImages
    \/ WaitAnnotations
    \/ \E m \in Managers : TimerPoll(m)
    \/ \E m \in Managers : DownloadStream(m)
    \/ \E m \in Managers : DownloadFinish(m)
    \/ \E m \in Managers : DownloadReady(m)

Spec == Init /\ [][Next]_vars

\* Timers fire, started threads run, and the caller's thread proceeds when
\* its wait can return.
Fairness ==
    /\ WF_vars(CreateImages)
    /\ WF_vars(CreateAnnotations)
    /\ WF_vars(WaitImages)
    /\ WF_vars(WaitAnnotations)
    /\ \A m \in Managers : WF_vars(TimerPoll(m))
    /\ \A m \in Managers : WF_vars(DownloadStream(m))
    /\ \A m \in Managers : WF_vars(DownloadFinish(m))
    /\ \A m \in Managers : WF_vars(DownloadReady(m))

FairSpec == Spec /\ Fairness

(***************************************************************************)
(* One threading.Event set and waited on by several threads                *)
(***************************************************************************)
\* a thread calls set()
GateOpen ==
    /\ opens < MaxOpens
    /\ gate' = EventSet(gate)
    /\ opens' = opens + 1
    /\ UNCHANGED <<mainVars, retryVars, waiter>>

\* a thread calls wait()
WaitStart(w) ==
    /\ waiter[w].pc = "idle"
    /\ waiter' = [waiter EXCEPT ![w] = [pc |-> "waiting", sawOpens |-> opens]]
    /\ UNCHANGED <<mainVars, retryVars, gate, opens>>

\* its wait() returns
WaitReturn(w) ==
    /\ waiter[w].pc = "waiting"
    /\ EventIsSet(gate)
    /\ waiter' = [waiter EXCEPT ![w].pc = "returned"]
    /\ UNCHANGED <<mainVars, retryVars, gate, opens>>

NextGate ==
    \/ GateOpen
    \/ \E w \in Waiters : WaitStart(w)
    \/ \E w \in Waiters : WaitReturn(w)

\* a thread whose wait() can return does return
SpecGate == Init /\ [][NextGate]_vars /\ \A w \in Waiters : WF_vars(WaitReturn(w))

(***************************************************************************)
(* A caller of the retry-wrapped _gql                                      *)
(***************************************************************************)
InitRetry ==
    /\ MainInit
    /\ GateInit
    /\ plan \in Plans
    /\ gql = "calling"
    /\ attempt_number = 0
    /\ gqlValue = <<>>
    /\ gqlExc = "none"

\* one turn of the wrapper's loop: invoke _gql, then return its value, raise
\* its exception, or go round again
Invoke ==
    /\ gql = "calling"
    /\ attempt_number' = attempt_number + 1
    /\ LET out == gql_call(ResponseAt(plan, attempt_number + 1))
       IN  IF ShouldReject(out)
           THEN IF Stop(attempt_number + 1)
                THEN gql' = "raised" /\ gqlExc' = out.exc /\ UNCHANGED gqlValue
                ELSE UNCHANGED <<gql, gqlExc, gqlValue>>
           ELSE IF out.exc # "none"
                THEN gql' = "raised" /\ gqlExc' = out.exc /\ UNCHANGED gqlValue
                ELSE gql' = "returned" /\ gqlValue' = out.value /\ UNCHANGED gqlExc
    /\ UNCHANGED <<mainVars, gateVars, plan>>

NextRetry == Invoke

SpecRetry == InitRetry /\ [][NextRetry]_vars

(***************************************************************************)
(* Vocabulary of the properties                                            *)
(***************************************************************************)
\* the manager entered _on_data_export_job_error (the error acknowledgment
\* was attempted)
Failed(m) == posted[m].error > 0

\* the manager entered _on_data_export_job_done (the done acknowledgment
\* was issued)
Completing(m) == posted[m].done > 0

\* the progress response is a JSON object with status, progress, timeRemaining
WellFormed(r) ==
    /\ r.kind = "json"
    /\ {"status", "progress", "timeRemaining"} \subseteq DOMAIN r.body

\* the progress response is a body that is not JSON or lacks a required key
Malformed(r) == r.kind \in {"nonjson", "null"} \/ (r.kind = "json" /\ ~WellFormed(r))

\* the path of the downloaded file under the destination directory
Downloaded(m) == DestPath \o <<"/">> \o file_key[m]

\* root is p without its extension: p is root followed by a dot and
\* characters that are neither dots nor separators, the last component of
\* root not being made of dots alone; a p of no such shape is its own root
IsCut(p, i) ==
    /\ i < Len(p)
    /\ p[i + 1] = "."
    /\ \A k \in (i + 2) .. Len(p) : p[k] \notin {".", "/"}
    /\ \E k \in 1 .. i : p[k] \notin {".", "/"} /\ \A j \in k .. i : p[j] # "/"

WithoutExtension(root, p) ==
    IF \E i \in 0 .. Len(p) : IsCut(p, i)
    THEN \E i \in 0 .. Len(p) : IsCut(p, i) /\ root = SubSeq(p, 1, i)
    ELSE root = p

(***************************************************************************)
(* Properties                                                              *)
(***************************************************************************)
\* C1: whenever a manager has transitioned to Failed, Client.project
\* eventually ends by raising; it does not stay in wait_until_ready forever.
C1_FailedPropagates ==
    \A m \in Managers : Failed(m) ~> (orch = "raised")

\* C2: whenever a manager's download fails the size verification,
\* Client.project eventually ends by raising instead of waiting forever.
C2_IntegrityErrorPropagates ==
    \A m \in Managers : (raised[m] = "IOError") ~> (orch = "raised")

\* C3: once both managers' downloads have completed (size verified and the
\* result location produced), Client.project eventually returns, the images
\* location being the downloaded archive's path without its extension and
\* the annotations location the downloaded file's path.
BothDownloadsComplete == \A m \in Managers : dl[m] \in {"extracted", "done"}

ReturnedLocations ==
    /\ orch = "returned"
    /\ WithoutExtension(result.images_dir, Downloaded("images"))
    /\ result.annotations_fp = Downloaded("annotations")

C3_BothDoneReturns == BothDownloadsComplete ~> ReturnedLocations

C3_Witness ==
    /\ ReturnedLocations
    /\ file_key["images"] = <<"i", ".", "z">>
    /\ result.images_dir = <<"d", "/", "i">>
    /\ posted["images"].done = 1 /\ posted["annotations"].done = 1

\* C4: Client.project returns only when every manager's gate is open and its
\* data_path is set, with no progress check pending and no download running.
C4_ReturnOnlyWhenAllReady ==
    orch = "returned" =>
        \A m \in Managers :
            /\ ready[m]
            /\ data_path[m] # NoPath
            /\ timer[m] = 0
            /\ dl[m] = "done"

C4_Witness ==
    /\ orch = "returned"
    /\ \A m \in Managers : ready[m] /\ lastPoll[m].kind = "json"

\* C5: after a progress response with status running and progress p in
\* 0..100, the manager has exactly one further check scheduled if p < 100,
\* and is Completing with none scheduled if p = 100.
C5_RunningPollOutcome ==
    \A m \in Managers :
        LET r == lastPoll[m] IN
        (/\ WellFormed(r)
         /\ r.body.status = "running"
         /\ r.body.progress.t = "num"
         /\ r.body.progress.v \in 0 .. 100)
        => IF r.body.progress.v < 100
           THEN timer[m] = 1
           ELSE timer[m] = 0 /\ Completing(m)

\* C6: after a progress response whose body is malformed or lacks status,
\* progress or timeRemaining, the manager is Failed and has no check scheduled.
C6_MalformedPollFails ==
    \A m \in Managers :
        Malformed(lastPoll[m]) => Failed(m) /\ timer[m] = 0

\* C7: a download that read total size T and wrote W bytes raised the I/O
\* error exactly when T is non-zero and W differs from T.
C7_IntegrityIff ==
    \A m \in Managers :
        dl[m] \in {"verified", "extracted", "done", "failed"}
        => (raised[m] = "IOError" <=> (total_size[m] # 0 /\ wrote[m] # total_size[m]))

C7_Witness ==
    /\ raised["images"] = "IOError"
    /\ total_size["images"] = 1 /\ wrote["images"] = 2
    /\ dl["annotations"] = "verified"
    /\ total_size["annotations"] = 0 /\ wrote["annotations"] = 2

\* C8: the Event is a one-shot latch: once set() has been called the flag
\* stays set however often set() is called again, a further set() leaves the
\* waiting threads as they are, a wait() returns only after a set(), and
\* every wait(), whether it started before or after the set(), returns.
C8_GateIsLatch ==
    /\ [](opens > 0 => gate)
    /\ [](\A w \in Waiters : waiter[w].pc = "returned" => opens > 0)
    /\ [][opens > 0 /\ opens' > opens => gate' = gate /\ waiter' = waiter]_vars
    /\ \A w \in Waiters :
         (waiter[w].pc = "waiting" /\ opens > 0) ~> (waiter[w].pc = "returned")

C8_Witness ==
    /\ opens = 2
    /\ \E w \in Waiters : waiter[w].pc = "returned" /\ waiter[w].sawOpens = 0
    /\ \E w \in Waiters : waiter[w].pc = "returned" /\ waiter[w].sawOpens > 0

\* the errors the retry predicate's whitelist names: connection failures,
\* transport-level HTTP errors, HTTP error statuses
TransientResponse(resp) ==
    \/ resp.kind = "raise"
       /\ resp.exc \in {"requests.ConnectionError", "requests.ConnectTimeout",
                        "urllib3.ProtocolError"}
    \/ resp.kind = "resp" /\ resp.status_code = 500

\* the invocation succeeds: status 200 with a JSON object as body
SuccessResponse(resp) ==
    resp.kind = "resp" /\ resp.status_code = 200 /\ resp.body.json = "object"

\* the errors outside the whitelist, with the exception each one is
OtherError(resp) ==
    IF resp.kind = "raise" /\ resp.exc = "requests.ReadTimeout" THEN "requests.ReadTimeout"
    ELSE IF resp.kind = "resp" /\ resp.status_code \in {200, 204} /\ resp.body.json = "invalid"
         THEN "ValueError"
    ELSE IF resp.kind = "resp" /\ resp.status_code \in {200, 204} /\ resp.body.json = "null"
         THEN "TypeError"
    ELSE "none"

\* C9: an operation that fails with a whitelisted error on its first n < 10
\* invocations and then succeeds is invoked n + 1 times in all and its
\* success value reaches the caller.
C9_RetriesThenReturns ==
    (/\ plan.fails < 10
     /\ plan.fails > 0 => TransientResponse(plan.failWith)
     /\ SuccessResponse(plan.then))
    => /\ gql \in {"calling", "returned"}
       /\ attempt_number <= plan.fails + 1
       /\ gql = "calling" => attempt_number <= plan.fails
       /\ gql = "returned" =>
            /\ attempt_number = plan.fails + 1
            /\ gqlValue = << plan.then.body.obj.data,
                             IF "errors" \in DOMAIN plan.then.body.obj
                             THEN plan.then.body.obj.errors ELSE JNull >>

C9_Witness ==
    /\ plan.fails = 3
    /\ TransientResponse(plan.failWith)
    /\ SuccessResponse(plan.then)
    /\ gql = "returned"
    /\ attempt_number = 4

\* C10: an operation whose first invocation fails with an error outside the
\* whitelist is invoked exactly once and that error is raised to the caller.
C10_OtherErrorNotRetried ==
    LET first == ResponseAt(plan, 1) IN
    OtherError(first) # "none"
    => /\ attempt_number <= 1
       /\ attempt_number = 1 => gql = "raised" /\ gqlExc = OtherError(first)

C10_Witness ==
    /\ OtherError(ResponseAt(plan, 1)) = "ValueError"
    /\ gql = "raised"
    /\ attempt_number = 1

\* the exception a whitelisted failure is
TransientError(resp) ==
    IF resp.kind = "raise" THEN resp.exc ELSE "requests.HTTPError"

\* C11: an operation that fails with a whitelisted error on every invocation
\* is invoked exactly 10 times, and then the error of the tenth invocation
\* is raised to the caller.
C11_ExhaustedRaisesLast ==
    (\A k \in 1 .. 10 : TransientResponse(ResponseAt(plan, k)))
    => /\ attempt_number <= 10
       /\ gql # "returned"
       /\ gql = "raised" <=> attempt_number = 10
       /\ gql = "raised" => gqlExc = TransientError(ResponseAt(plan, 10))

C11_Witness ==
    /\ plan.fails = 9
    /\ plan.failWith = [kind |-> "raise", exc |-> "requests.ConnectionError"]
    /\ TransientResponse(plan.then) /\ plan.then.kind = "resp"
    /\ gql = "raised"
    /\ attempt_number = 10
    /\ gqlExc = "requests.HTTPError"

\* C12: a transient transport failure of a manager's job-control call reaches
\* the manager only when the retry cap is exhausted, that is after ten
\* invocations of the call (stated for the create, done and error calls,
\* whose POSTs are counted).
C12_ManagerCallsRetried ==
    \A m \in Managers :
        /\ lastCreate[m] = ConnErr => posted[m].create = 10
        /\ lastDone[m] = ConnErr => posted[m].done = 10
        /\ (Failed(m) /\ raised[m] = "requests.ConnectionError") => posted[m].error = 10

\* the manager has seen its job in status done or error, or has entered Failed
Terminal(m) ==
    \/ Failed(m)
    \/ WellFormed(lastPoll[m]) /\ lastPoll[m].body.status \in {"done", "error"}

\* C13: once a manager's job was observed done or error, or the manager
\* entered Failed, no progress check is scheduled for it and no handler of
\* it runs again (no progress response is taken, no POST is issued).
C13_NoPollAfterTerminal ==
    /\ [](\A m \in Managers : Terminal(m) => timer[m] = 0)
    /\ [][\A m \in Managers :
            Terminal(m) => lastPoll'[m] = lastPoll[m] /\ posted'[m] = posted[m]]_vars

C13_Witness ==
    \E m \in Managers :
        /\ WellFormed(lastPoll[m]) /\ lastPoll[m].body.status = "error"
        /\ raisedIn[m] = "timer"
        /\ Failed(m)
        /\ timer[m] = 0

\* C14: within one manager at most one progress check is pending at any
\* time, the done handler (which starts the download) runs at most once, no
\* check is pending once the download was started, and from then on no
\* handler of the manager runs again.
C14_OnePollOneDownload ==
    /\ [](\A m \in Managers :
            /\ timer[m] <= 1
            /\ posted[m].done <= 1
            /\ dl[m] # "none" => timer[m] = 0 /\ posted[m].done = 1)
    /\ [][\A m \in Managers :
            dl[m] # "none" => lastPoll'[m] = lastPoll[m] /\ posted'[m] = posted[m]
                              /\ file_key'[m] = file_key[m]]_vars

C14_Witness ==
    /\ dl["images"] = "started"
    /\ raisedIn["images"] = "none"
    /\ timer["images"] = 0
    /\ timer["annotations"] = 1

\* C15 as stated: in every reachable state a manager's data_path exists if
\* and only if its readiness gate is open.
C15_PathIffGate ==
    \A m \in Managers : data_path[m] # NoPath <=> ready[m]

\* C15 as amended: whenever a manager's gate is open its data_path exists,
\* and a data_path exists while the gate is closed only in the download
\* thread between the assignment of data_path and the set() that follows it.
C15_GateImpliesPath ==
    \A m \in Managers :
        /\ ready[m] => data_path[m] # NoPath
        /\ (data_path[m] # NoPath /\ ~ready[m]) => dl[m] = "extracted"

C15_Witness ==
    /\ ready["annotations"] /\ data_path["annotations"] # NoPath
    /\ ~ready["images"] /\ data_path["images"] # NoPath

\* C16: a manager's gate opens only in the download thread after the size
\* verification has passed and data_path was produced (for images: after
\* the extraction); it is never open for a manager whose download or job
\* failed.
C16_GateOnlyAfterVerifiedDownload ==
    /\ [](\A m \in Managers :
            ready[m] =>
                /\ total_size[m] = 0 \/ wrote[m] = total_size[m]
                /\ dl[m] = "done"
                /\ data_path[m] # NoPath
                /\ raised[m] = "none"
                /\ ~Failed(m))
    /\ [][\A m \in Managers :
            (ready'[m] /\ ~ready[m]) => dl[m] = "extracted" /\ dl'[m] = "done"]_vars

C16_Witness ==
    /\ ready["images"]
    /\ total_size["images"] = 2 /\ wrote["images"] = 2
    /\ data_path["images"] = <<"d", "/", "i">>
    /\ dl["annotations"] = "failed"
    /\ ~ready["annotations"]

\* the done acknowledgment was answered without a file key: the field is
\* missing, or it is null or empty
KeyAbsent(r) ==
    /\ r.kind = "json"
    /\ "fileKey" \in DOMAIN r.body => ~Truthy(r.body.fileKey)

\* C17: after a done acknowledgment whose response has no file key, the
\* manager is Failed (the error acknowledgment was issued and the export
\* error raised) and no download was started.
C17_NoKeyFails ==
    \A m \in Managers :
        KeyAbsent(lastDone[m]) =>
            Failed(m) /\ raised[m] = "Exception" /\ dl[m] = "none"

\* C18: whenever a manager has entered Failed, the error acknowledgment was
\* attempted once and the export error (Exception) was raised, whatever
\* became of the acknowledgment call.
C18_FailedRaisesExportError ==
    \A m \in Managers :
        Failed(m) => posted[m].error = 1 /\ raised[m] = "Exception"

\* C19: a create-job response with status 202 leads to a progress check;
\* every other response leads to Failed with no progress check issued.
C19_CreateResponse ==
    \A m \in Managers :
        lastCreate[m].kind = "resp" =>
            IF lastCreate[m].status_code = 202
            THEN lastPoll[m] # NoResponse
            ELSE Failed(m) /\ lastPoll[m] = NoResponse /\ timer[m] = 0

C19_Witness ==
    /\ lastCreate["images"] = [kind |-> "resp", status_code |-> 202]
    /\ lastPoll["images"] # NoResponse
    /\ lastCreate["annotations"] = [kind |-> "resp", status_code |-> 200]
    /\ Failed("annotations")
    /\ lastPoll["annotations"] = NoResponse

\* C20: after any well-formed progress response the manager has a progress
\* check pending, has started its download, or has entered Failed (stated
\* for the responses of a status other than done, whatever their progress;
\* what follows a done status is the subject of C17).
C20_NeverQuiescent ==
    \A m \in Managers :
        (WellFormed(lastPoll[m]) /\ lastPoll[m].body.status # "done")
        => timer[m] > 0 \/ dl[m] # "none" \/ Failed(m)

====
